---- MODULE Spec2Model ----
(***************************************************************************)
(* Model of ToxCast/toxcast_process.py: the batch pipeline                 *)
(*   load_data -> enrich_assays -> adjust_tissue -> filter_assays -> to_csv*)
(* A DataFrame is a record [columns, rows]: columns is the ordered list of *)
(* column names, rows the ordered list of rows, each row a function from   *)
(* the column names to cell values.  A missing cell (NaN / None) is Null.  *)
(***************************************************************************)
EXTENDS Integers, Sequences, FiniteSets, TLC

VARIABLES pc, assays, targets, quality_stats, conc_curves,
          assays_enriched, out, file

vars == <<pc, assays, targets, quality_stats, conc_curves,
          assays_enriched, out, file>>

(* ---------------------------------------------------------------------- *)
(* Bounds of the model: the largest number of rows drawn for each table.   *)
(* ---------------------------------------------------------------------- *)
MaxAssays == 1

MaxTargets == 1

MaxQuality == 1

MaxCurves == 2

MaxFilterRows == 1

MaxTissueRows == 2

(* ---------------------------------------------------------------------- *)
(* Data frames                                                             *)
(* ---------------------------------------------------------------------- *)
Null == "NaN"

Frame(cols, rows) == [columns |-> cols, rows |-> rows]

NoFrame == Frame(<<>>, <<>>)

ToSet(s) == {s[i] : i \in DOMAIN s}

SeqsUpTo(S, n) == UNION {[1..k -> S] : k \in 0..n}

RECURSIVE Flatten(_)
Flatten(ss) == IF ss = <<>> THEN <<>> ELSE Head(ss) \o Flatten(Tail(ss))

(* Columns of interest, lines 15-23 *)
assays_cols ==
    <<"assay_component_endpoint_name", "acid",
      "assay_component_name", "assay_function_type", "intended_target_family",
      "intended_target_family_sub", "assay_component_desc", "assay_design_type",
      "biological_process_target", "organism", "tissue",
      "cell_format", "cell_short_name", "assay_format_type">>

targets_cols == <<"official_symbol", "aenm">>

quality_stats_cols == <<"aenm", "acnt">>

conc_curves_cols == <<"aenm", "hitc", "flags">>

(* Variant: the key comparison is lost and every pair of rows is joined. *)
KeyMatch_any(a, b) == TRUE

(* pandas matches merge keys by value; rows whose key is null on both      *)
(* sides are matched against each other (unlike an SQL equality join).     *)
KeyMatch(a, b) == a = b

(* DataFrame.merge(right, left_on=, right_on=, how="inner") with the       *)
(* default suffixes ("_x", "_y"): a column name present on both sides is   *)
(* renamed on both; every left row, in order, is paired with the matching  *)
(* right rows, in order (the documented order of an inner merge: the order *)
(* of the left keys).                                                      *)
Merge(left, right, left_on, right_on) ==
    LET lcols == ToSet(left.columns)
        rcols == ToSet(right.columns)
        overlap == lcols \cap rcols
        lname(c) == IF c \in overlap THEN c \o "_x" ELSE c
        rname(c) == IF c \in overlap THEN c \o "_y" ELSE c
        cols == [i \in 1..Len(left.columns) |-> lname(left.columns[i])]
                \o [i \in 1..Len(right.columns) |-> rname(right.columns[i])]
        row(l, r) ==
            [c \in ToSet(cols) |->
                IF \E k \in lcols : lname(k) = c
                THEN l[CHOOSE k \in lcols : lname(k) = c]
                ELSE r[CHOOSE k \in rcols : rname(k) = c]]
        expand(l) ==
            LET m == SelectSeq(right.rows,
                               LAMBDA r : KeyMatch(l[left_on], r[right_on]))
            IN  [j \in 1..Len(m) |-> row(l, m[j])]
    IN  Frame(cols, Flatten([i \in 1..Len(left.rows) |-> expand(left.rows[i])]))

(* DataFrame.drop(names, axis=1) *)
Drop(t, names) ==
    LET keep == SelectSeq(t.columns, LAMBDA c : c \notin ToSet(names))
    IN  Frame(keep,
              [i \in 1..Len(t.rows) |-> [c \in ToSet(keep) |-> t.rows[i][c]]])

(* Variant: subset= is not passed, so rows are compared on every column. *)
DropDuplicates_allcols(t, subset) ==
    LET first(i) == ~ \E j \in 1..(i - 1) : t.rows[j] = t.rows[i]
        idx == SelectSeq([i \in 1..Len(t.rows) |-> i], first)
    IN  Frame(t.columns, [k \in 1..Len(idx) |-> t.rows[idx[k]]])

(* DataFrame.drop_duplicates(subset=): the first row of every group of     *)
(* rows equal on the subset columns is kept (null equals null here).       *)
DropDuplicates(t, subset) ==
    LET first(i) == ~ \E j \in 1..(i - 1) :
                        \A c \in ToSet(subset) : t.rows[j][c] = t.rows[i][c]
        idx == SelectSeq([i \in 1..Len(t.rows) |-> i], first)
    IN  Frame(t.columns, [k \in 1..Len(idx) |-> t.rows[idx[k]]])

(* The three chained merges and the drop of lines 56-78 *)
JoinAssays(a, t, q, c) ==
    Drop(Merge(Merge(Merge(a, t, "assay_component_endpoint_name", "aenm"),
                     q, "assay_component_endpoint_name", "aenm"),
               c, "assay_component_endpoint_name", "aenm"),
         <<"aenm_x", "aenm_y">>)

DedupSubset == <<"assay_component_name", "biological_process_target", "official_symbol">>

enrich_assays(a, t, q, c) == DropDuplicates(JoinAssays(a, t, q, c), DedupSubset)

(* DataFrame.query: `col == "s"`, `col != "s"` compare cell by cell (a     *)
(* null cell is not equal to any string); `col != [list]` is evaluated as  *)
(* `col not in [list]`.                                                    *)
QueryEq(v, s) == v = s

QueryNe(v, s) == v # s

QueryNeList(v, list) == v \notin ToSet(list)

IsHuman(r) == QueryEq(r.organism, "human")

(* Variant: `and` in place of `or`. *)
NotCytotoxic_and(r) ==
    /\ r.intended_target_family_sub # "cytotoxicity"
    /\ r.biological_process_target \notin {"cell death", "cell proliferation"}

NotCytotoxic(r) ==
    \/ QueryNe(r.intended_target_family_sub, "cytotoxicity")
    \/ QueryNeList(r.biological_process_target, <<"cell death", "cell proliferation">>)

(* Variant: the intended_target_family condition is left out. *)
NotBackground_two(r) ==
    \/ r.assay_function_type # "background control"
    \/ r.assay_design_type \notin {"background reporter", "viability reporter"}

NotBackground(r) ==
    \/ QueryNe(r.assay_function_type, "background control")
    \/ QueryNeList(r.assay_design_type, <<"background reporter", "viability reporter">>)
    \/ QueryNe(r.intended_target_family, "background measurement")

IsActive(r) == r.hitc = 1

(* the four chained .query calls, each keeping the rows its expression    *)
(* holds for, in order                                                     *)
filter_assays(t) ==
    LET q1 == SelectSeq(t.rows, IsHuman)
        q2 == SelectSeq(q1, NotCytotoxic)
        q3 == SelectSeq(q2, NotBackground)
        q4 == SelectSeq(q3, IsActive)
    IN  Frame(t.columns, q4)

(* Variant: the mask is not negated. *)
adjust_tissue_inverted(t) ==
    Frame(t.columns,
          [i \in 1..Len(t.rows) |->
              IF t.rows[i].cell_short_name = Null
              THEN [t.rows[i] EXCEPT !["tissue"] = Null]
              ELSE t.rows[i]])

(* assays.loc[~assays["cell_short_name"].isna(), "tissue"] = np.nan *)
adjust_tissue(t) ==
    Frame(t.columns,
          [i \in 1..Len(t.rows) |->
              IF t.rows[i].cell_short_name # Null
              THEN [t.rows[i] EXCEPT !["tissue"] = Null]
              ELSE t.rows[i]])

(* ---------------------------------------------------------------------- *)
(* Input tables the run may read                                           *)
(* ---------------------------------------------------------------------- *)
assay0 ==
    [assay_component_endpoint_name |-> "e1", acid |-> 7,
     assay_component_name |-> "c1", assay_function_type |-> "signaling",
     intended_target_family |-> "nuclear receptor",
     intended_target_family_sub |-> "steroidal",
     assay_component_desc |-> "desc", assay_design_type |-> "inducer",
     biological_process_target |-> "binding", organism |-> "human",
     tissue |-> "kidney", cell_format |-> "cell line",
     cell_short_name |-> "HEK293", assay_format_type |-> "cell-based"]

EndpointNames == {"e1", Null}

AssayRows ==
    {[assay0 EXCEPT !.organism = o] : o \in {"human", "rat"}}
    \cup {[assay0 EXCEPT !.assay_component_endpoint_name = Null]}

TargetRows ==
    [official_symbol : {"G1", "G2"}, aenm : {"e1"}]
    \cup [official_symbol : {"G1"}, aenm : {Null}]

QualityRows == [aenm : EndpointNames, acnt : {5}]

CurveRows ==
    [aenm : {"e1"}, hitc : {0, 1}, flags : {Null}]
    \cup [aenm : {"e1"}, hitc : {1}, flags : {"m4"}]
    \cup [aenm : {Null}, hitc : {1}, flags : {Null}]

(* Tables handed directly to filter_assays and to adjust_tissue: rows over *)
(* the columns enrich_assays returns.                                      *)
EnrichedCols ==
    enrich_assays(Frame(assays_cols, <<>>), Frame(targets_cols, <<>>),
                  Frame(quality_stats_cols, <<>>),
                  Frame(conc_curves_cols, <<>>)).columns

enriched0 ==
    LET extra == [official_symbol |-> "G1", acnt |-> 5, aenm |-> "e1",
                  hitc |-> 1, flags |-> Null]
    IN  [c \in ToSet(EnrichedCols) |->
            IF c \in DOMAIN assay0 THEN assay0[c] ELSE extra[c]]

FilterRows ==
    {[enriched0 EXCEPT !.organism = o,
                       !.intended_target_family_sub = s,
                       !.biological_process_target = b,
                       !.assay_function_type = f,
                       !.assay_design_type = d,
                       !.intended_target_family = t,
                       !.hitc = h] :
        o \in {"human", "rat"},
        s \in {"cytotoxicity", "steroidal", Null},
        b \in {"cell death", "cell proliferation", "binding", Null},
        f \in {"background control", "signaling"},
        d \in {"background reporter", "viability reporter", "inducer"},
        t \in {"background measurement", "nuclear receptor"},
        h \in {0, 1}}

TissueRows ==
    {[enriched0 EXCEPT !.cell_short_name = c, !.tissue = t, !.organism = o] :
        c \in {"HEK293", Null},
        t \in {"kidney", "liver", Null},
        o \in {"human", "rat"}}

(* ---------------------------------------------------------------------- *)
(* The __main__ block, lines 116-130                                       *)
(* ---------------------------------------------------------------------- *)
Init ==
    /\ pc = "load"
    /\ assays = NoFrame
    /\ targets = NoFrame
    /\ quality_stats = NoFrame
    /\ conc_curves = NoFrame
    /\ assays_enriched = NoFrame
    /\ out = NoFrame
    /\ file = <<>>

(* load_data: each table is read and projected on its columns of interest *)
LoadData ==
    /\ pc = "load"
    /\ \E a \in SeqsUpTo(AssayRows, MaxAssays),
          t \in SeqsUpTo(TargetRows, MaxTargets),
          q \in SeqsUpTo(QualityRows, MaxQuality),
          c \in SeqsUpTo(CurveRows, MaxCurves) :
            /\ assays' = Frame(assays_cols, a)
            /\ targets' = Frame(targets_cols, t)
            /\ quality_stats' = Frame(quality_stats_cols, q)
            /\ conc_curves' = Frame(conc_curves_cols, c)
    /\ pc' = "head"
    /\ UNCHANGED <<assays_enriched, out, file>>

(* print(assays.iloc[0]); print(conc_curves.iloc[0]): IndexError on an    *)
(* empty table ends the run                                                *)
PrintHead ==
    /\ pc = "head"
    /\ pc' = IF Len(assays.rows) = 0 \/ Len(conc_curves.rows) = 0
             THEN "aborted" ELSE "enrich"
    /\ UNCHANGED <<assays, targets, quality_stats, conc_curves,
                   assays_enriched, out, file>>

Enrich ==
    /\ pc = "enrich"
    /\ assays_enriched' = enrich_assays(assays, targets, quality_stats, conc_curves)
    /\ pc' = "adjust"
    /\ UNCHANGED <<assays, targets, quality_stats, conc_curves, out, file>>

AdjustTissue ==
    /\ pc = "adjust"
    /\ assays_enriched' = adjust_tissue(assays_enriched)
    /\ pc' = "filter"
    /\ UNCHANGED <<assays, targets, quality_stats, conc_curves, out, file>>

FilterAssays ==
    /\ pc = "filter"
    /\ out' = filter_assays(assays_enriched)
    /\ pc' = "write"
    /\ UNCHANGED <<assays, targets, quality_stats, conc_curves,
                   assays_enriched, file>>

(* Variant: the table is written before filter_assays has run. *)
WriteOutput_early ==
    /\ pc \in {"filter", "write"}
    /\ file' = <<assays_enriched>>
    /\ pc' = "done"
    /\ UNCHANGED <<assays, targets, quality_stats, conc_curves,
                   assays_enriched, out>>

(* the two nunique() prints, then out.to_csv(...) *)
WriteOutput ==
    /\ pc = "write"
    /\ file' = <<out>>
    /\ pc' = "done"
    /\ UNCHANGED <<assays, targets, quality_stats, conc_curves,
                   assays_enriched, out>>

(* an exception raised inside a stage is not caught: the run ends *)
Raise ==
    /\ pc \in {"load", "enrich", "adjust", "filter", "write"}
    /\ pc' = "aborted"
    /\ UNCHANGED <<assays, targets, quality_stats, conc_curves,
                   assays_enriched, out, file>>

Next ==
    \/ LoadData
    \/ PrintHead
    \/ Enrich
    \/ AdjustTissue
    \/ FilterAssays
    \/ WriteOutput
    \/ Raise

Spec == Init /\ [][Next]_vars

(* filter_assays applied to any table of enriched rows *)
InitFilter ==
    /\ pc = "filter"
    /\ assays = NoFrame
    /\ targets = NoFrame
    /\ quality_stats = NoFrame
    /\ conc_curves = NoFrame
    /\ assays_enriched \in {Frame(EnrichedCols, rs) : rs \in SeqsUpTo(FilterRows, MaxFilterRows)}
    /\ out = NoFrame
    /\ file = <<>>

NextFilter == FilterAssays

SpecFilter == InitFilter /\ [][NextFilter]_vars

(* adjust_tissue applied to any table of enriched rows *)
InitTissue ==
    /\ pc = "adjust"
    /\ assays = NoFrame
    /\ targets = NoFrame
    /\ quality_stats = NoFrame
    /\ conc_curves = NoFrame
    /\ assays_enriched \in {Frame(EnrichedCols, rs) : rs \in SeqsUpTo(TissueRows, MaxTissueRows)}
    /\ out = NoFrame
    /\ file = <<>>

NextTissue == AdjustTissue

SpecTissue == InitTissue /\ [][NextTissue]_vars

(* ---------------------------------------------------------------------- *)
(* Properties                                                              *)
(* ---------------------------------------------------------------------- *)
Rows(t) == ToSet(t.rows)

Joined == JoinAssays(assays, targets, quality_stats, conc_curves)

PipelineResult ==
    filter_assays(adjust_tissue(
        enrich_assays(assays, targets, quality_stats, conc_curves)))

IsCytotoxicArtifact(r) ==
    /\ r.intended_target_family_sub = "cytotoxicity"
    /\ r.biological_process_target \in {"cell death", "cell proliferation"}

IsBackgroundArtifact(r) ==
    /\ r.assay_function_type = "background control"
    /\ r.assay_design_type \in {"background reporter", "viability reporter"}
    /\ r.intended_target_family = "background measurement"

(* The five predicates of the Domain Filter, as the specification lists them *)
PassesAll(r) ==
    /\ r.organism = "human"
    /\ ~ IsCytotoxicArtifact(r)
    /\ ~ IsBackgroundArtifact(r)
    /\ r.hitc = 1
    /\ r.flags = Null

SameKey(r, s) == \A c \in ToSet(DedupSubset) : r[c] = s[c]

(* C1: the table filter_assays returns, and the table the run writes,      *)
(* contain no row whose flags cell is non-null.                            *)
C1_NoFlaggedRow ==
    /\ \A r \in Rows(out) : r.flags = Null
    /\ \A k \in DOMAIN file : \A r \in Rows(file[k]) : r.flags = Null

(* C2: for every composite key with at least one joined row passing all    *)
(* five predicates, the written table holds exactly one row with that key, *)
(* and it is the first passing row in joined order.                        *)
C2_DedupAfterFilter ==
    pc = "done" =>
        LET j == adjust_tissue(Joined).rows
        IN  \A i \in DOMAIN j :
                (/\ PassesAll(j[i])
                 /\ ~ \E h \in 1..(i - 1) : PassesAll(j[h]) /\ SameKey(j[h], j[i]))
                => /\ Cardinality({k \in DOMAIN file[1].rows :
                                      SameKey(file[1].rows[k], j[i])}) = 1
                   /\ j[i] \in Rows(file[1])

(* C3: among the rows passing the species, background and activity         *)
(* predicates, filter_assays drops a row exactly when its sub-family is    *)
(* "cytotoxicity" and its biological process target is "cell death" or     *)
(* "cell proliferation"; a null in either cell keeps the row.              *)
C3_CytotoxicityExclusion ==
    pc = "write" =>
        \A r \in Rows(assays_enriched) :
            (r.organism = "human" /\ ~ IsBackgroundArtifact(r) /\ r.hitc = 1)
            => ((r \notin Rows(out)) <=> IsCytotoxicArtifact(r))

C3_Witness ==
    /\ pc = "write"
    /\ \E r \in Rows(assays_enriched) :
          /\ r.organism = "human" /\ ~ IsBackgroundArtifact(r) /\ r.hitc = 1
          /\ IsCytotoxicArtifact(r)
          /\ r \notin Rows(out)

(* C4: among the rows passing the species, cytotoxicity and activity       *)
(* predicates, filter_assays drops a row exactly when its function type is *)
(* "background control", its design type is "background reporter" or       *)
(* "viability reporter", and its target family is "background measurement".*)
C4_BackgroundExclusion ==
    pc = "write" =>
        \A r \in Rows(assays_enriched) :
            (r.organism = "human" /\ ~ IsCytotoxicArtifact(r) /\ r.hitc = 1)
            => ((r \notin Rows(out)) <=> IsBackgroundArtifact(r))

C4_Witness ==
    /\ pc = "write"
    /\ \E r \in Rows(assays_enriched) :
          /\ r.organism = "human" /\ ~ IsCytotoxicArtifact(r) /\ r.hitc = 1
          /\ IsBackgroundArtifact(r)
          /\ r \notin Rows(out)

(* C5: adjust_tissue leaves the table with the same rows in the same       *)
(* order, where a row with a non-null cell_short_name has a null tissue, a *)
(* row with a null cell_short_name has its tissue unchanged, and no other  *)
(* cell is changed.                                                        *)
C5_TissueNormalizer ==
    [][pc = "adjust" =>
        /\ assays_enriched'.columns = assays_enriched.columns
        /\ Len(assays_enriched'.rows) = Len(assays_enriched.rows)
        /\ \A i \in DOMAIN assays_enriched.rows :
              LET old == assays_enriched.rows[i]
                  new == assays_enriched'.rows[i]
              IN  /\ new.tissue = IF old.cell_short_name # Null
                                  THEN Null ELSE old.tissue
                  /\ \A c \in DOMAIN old \ {"tissue"} : new[c] = old[c]]_vars

C5_Witness ==
    /\ pc = "filter"
    /\ \E i, k \in DOMAIN assays_enriched.rows :
          /\ assays_enriched.rows[i].cell_short_name = "HEK293"
          /\ assays_enriched.rows[i].tissue = Null
          /\ assays_enriched.rows[k].cell_short_name = Null
          /\ assays_enriched.rows[k].tissue = "liver"

(* C6: every row enrich_assays returns carries an endpoint name that is    *)
(* the key of an assays row and of a row of each of targets, quality_stats *)
(* and conc_curves, and its gene symbol, active-sample count, hit-call and *)
(* flags are those of rows with that key; so an assay row whose endpoint   *)
(* name is absent from one of the tables contributes no row.               *)
C6_JoinCorrectness ==
    /\ \A r \in Rows(assays_enriched) :
          LET k == r.assay_component_endpoint_name
          IN  /\ \E a \in Rows(assays) :
                    \A c \in ToSet(assays_cols) \ {"tissue"} : a[c] = r[c]
              /\ \E t \in Rows(targets) :
                    t.aenm = k /\ t.official_symbol = r.official_symbol
              /\ \E q \in Rows(quality_stats) :
                    q.aenm = k /\ q.acnt = r.acnt
              /\ \E c \in Rows(conc_curves) :
                    c.aenm = k /\ c.hitc = r.hitc /\ c.flags = r.flags
    /\ pc = "adjust" =>
          \A a \in Rows(assays) :
              LET k == a.assay_component_endpoint_name
              IN  (\/ ~ \E t \in Rows(targets) : t.aenm = k
                   \/ ~ \E q \in Rows(quality_stats) : q.aenm = k
                   \/ ~ \E c \in Rows(conc_curves) : c.aenm = k)
                  => ~ \E r \in Rows(assays_enriched) :
                          r.assay_component_endpoint_name = k

C6_Witness ==
    /\ pc = "adjust"
    /\ Len(assays_enriched.rows) >= 1
    /\ \E c \in Rows(conc_curves) :
          \A r \in Rows(assays_enriched) :
              c.aenm # r.assay_component_endpoint_name

(* C7: an assay row whose endpoint name is null gives no row of the table  *)
(* enrich_assays returns.                                                  *)
C7_NullKeyNeverJoins ==
    \A r \in Rows(assays_enriched) : r.assay_component_endpoint_name # Null

(* C8: no two rows of the table filter_assays returns, nor of the written  *)
(* table, share the composite key (assay_component_name,                   *)
(* biological_process_target, official_symbol).                            *)
C8_DedupUniqueness ==
    /\ \A i, k \in DOMAIN out.rows :
          i # k => ~ SameKey(out.rows[i], out.rows[k])
    /\ \A f \in DOMAIN file : \A i, k \in DOMAIN file[f].rows :
          i # k => ~ SameKey(file[f].rows[i], file[f].rows[k])

C8_Witness ==
    /\ pc = "done"
    /\ Len(file[1].rows) = 1
    /\ Len(filter_assays(adjust_tissue(Joined)).rows) >= 2

(* C9: an output file exists only once the run is done, and it then holds  *)
(* the result of load, enrich, adjust and filter in full; a run that       *)
(* aborted has written no file.                                            *)
C9_NoPartialOutput ==
    /\ file # <<>> => pc = "done" /\ file = <<PipelineResult>>
    /\ pc = "aborted" => file = <<>>

C9_Witness ==
    /\ pc = "done"
    /\ file = <<PipelineResult>>
    /\ Len(file[1].rows) >= 1

(* C10: the table enrich_assays returns keeps the left key column and no   *)
(* copy of the right key (no aenm, aenm_x or aenm_y column).               *)
C10_NoRightKeyColumn ==
    pc \in {"adjust", "filter", "write", "done"} =>
        /\ "assay_component_endpoint_name" \in ToSet(assays_enriched.columns)
        /\ ToSet(assays_enriched.columns) \cap {"aenm", "aenm_x", "aenm_y"} = {}

====
